---- MODULE Spec2Model ----
(***************************************************************************)
(* RealtimeService (src/src/services/SettingsService.ts): one SSE          *)
(* connection multiplexing topic subscriptions, the handshake that yields  *)
(* the clientId, the registration pushes sent through Client.send, and the *)
(* reconnect logic.  The browser's EventSource, the timer queue and the    *)
(* server are the environment.                                             *)
(*                                                                         *)
(* The other components are modelled beside it, each with a specification  *)
(* of its own that leaves the rest of the state alone: the request         *)
(* cancellation of PocketBase.send (src/src/PocketBase.ts) in SendSpec,    *)
(* the auth store (BaseAuthStore, LocalAuthStore) in AuthSpec, and the     *)
(* Svelte realtimeStore (src/unnamed/part_002) in StoreSpec.               *)
(***************************************************************************)
EXTENDS Bags, FiniteSets, Integers, Sequences, TLC

\* ------------------------------------------------------------------ bounds
\* total number of subscriber registrations held by the registry
MaxSubs == 2
\* callers suspended in connect() at the same time
MaxPending == 2
\* registration requests in flight at the same time
MaxInflight == 2
\* setTimeout callbacks of handleDisconnect pending at the same time
MaxTimers == 2
\* EventSource objects that are un-closed but no longer referenced
MaxDetached == 1
\* transport failures between two handshakes in the reconnect scenario
MaxFailures == 2

\* send() calls made on one client
MaxRequests == 3
\* callbacks registered in the auth store at the same time
MaxCallbacks == 2
\* callbacks created by the subscribe() methods of the auth stores
MaxWrappers == 2

\* initialize() calls of a realtimeStore suspended at the same time
MaxInitializing == 2
\* realtime registrations a realtimeStore makes in one run
MaxCreated == 3
\* records in the list of a realtimeStore
MaxRecords == 2

\* requests added to one BatchService
MaxBatchRequests == 4
\* send() calls of one BatchService in flight at the same time
MaxBatchSends == 2

\* ------------------------------------------------------------- constants
maxReconnectAttempts == 10

\* Strings are modelled as sequences of characters so that startsWith is
\* computed, not assumed.
PB_CONNECT == <<"P", "B", "_", "C", "O", "N", "N", "E", "C", "T">>
TopicA == <<"a", "/", "*">>
TopicA1 == <<"a", "/", "1">>
TopicB == <<"b", "/", "*">>
EmptyTopic == <<>>
Topics == {TopicA, TopicA1, TopicB, PB_CONNECT}
\* RecordService.unsubscribe() without a topic passes `${collection}/`
Collections == {<<"a">>, <<"b">>}
Prefixes == {c \o <<"/">> : c \in Collections}
Callbacks == {"cb1", "cb2"}

\* The runs explored: each scenario fixes the inputs the callers use and how
\* much the environment does, so that every dimension is explored in depth
\* in one of them without multiplying all of them together.  The fields:
\* topics and callbacks the callers use, and the caps on the registrations in
\* the registry, the suspended connect() callers, the requests in flight, the
\* pending retry timers, the detached EventSources, the clientIds the server
\* issues and the transport failures between two handshakes.
Scenario(name, topics, callbacks, subs, pending, infl, timers, det, ids, fails) ==
    [name |-> name, topics |-> topics, callbacks |-> callbacks, subs |-> subs,
     pending |-> pending, inflight |-> infl, timers |-> timers, detached |-> det,
     ids |-> ids, failures |-> fails]

\* the runs of a runtime that has no EventSource (SettingsService.ts:294):
\* no connection is ever opened and no caller stays suspended in connect()
Unavailable == Scenario("unavailable", Topics, Callbacks, MaxSubs, 0, 1, 0, 0, 0, 0)

Scenarios ==
    { Scenario("registry", Topics, Callbacks, MaxSubs, 1, 1, 1, 0, 1, 0),
      Scenario("connection", {TopicA}, {"cb1"}, 2, 2, 2, 0, MaxDetached, 2, 0),
      Scenario("reconnect", {TopicA}, {"cb1"}, 1, 2, 2, MaxTimers, 0, 2, MaxFailures),
      Scenario("sync", {TopicA, TopicB}, {"cb1"}, MaxSubs, MaxPending, MaxInflight, 0, 0,
               1, 0),
      Scenario("retry", {TopicA}, {"cb1"}, 1, maxReconnectAttempts + 1, 1, MaxTimers, 0,
               0, maxReconnectAttempts + 1),
      Unavailable }

\* clientId '' (SettingsService.ts:152); issued ids are 1, 2, ...
NoId == 0

\* this.eventSource = null
Null == [readyState |-> "null", hs |-> 0]
\* new EventSource(url): readyState CONNECTING, no handshake frame received
NewEventSource == [readyState |-> "CONNECTING", hs |-> 0]

VARIABLES
    subscriptions,     \* Map<string, Subscription[]>, entries in insertion order
    eventSource,       \* this.eventSource: Null or [readyState, hs]
    clientId,          \* this.clientId
    reconnectAttempts, \* this.reconnectAttempts
    pendingConnects,   \* number of {resolve, reject} pairs in this.pendingConnects
    retryTimers,       \* pending setTimeout callbacks scheduled by handleDisconnect
    detached,          \* un-closed EventSources this.eventSource no longer refers to
    inflight,          \* bag of registration requests sent and not yet answered
    issued,            \* number of clientIds the server has issued
    serverSubs,        \* per issued clientId: the topic set the server last accepted
    live,              \* ghost: the (topic, callback) pairs subscribed and not unsubscribed
    failures,          \* ghost: transport failures handled since the last handshake
    rejected,          \* ghost: the clientIds for which the server refused a request
    lastOp,            \* ghost: what the last handler did
    scn                \* the scenario of this run (fixed by Init)

realtimeVars ==
    <<subscriptions, eventSource, clientId, reconnectAttempts, pendingConnects,
      retryTimers, detached, inflight, issued, serverSubs, live, failures, rejected, lastOp, scn>>

\* PocketBase (src/src/PocketBase.ts)
VARIABLES
    autoCancellation,  \* this._autoCancellation
    cancelControllers, \* this._cancelControllers: request key -> the request owning the controller
    requests,          \* the send() calls made: [key, aborted, state], in call order
    sendOp             \* ghost: the last operation on the client

sendVars == <<autoCancellation, cancelControllers, requests, sendOp>>

\* LocalAuthStore and its base class (src/unnamed/part_001)
VARIABLES
    localStorage,      \* window.localStorage: whether it is defined, the item under storageKey
    storageFallback,   \* this.storageFallback[storageKey]
    baseToken,         \* this.baseToken
    baseRecord,        \* this.baseRecord
    onChangeCallbacks, \* this._onChangeCallbacks, in registration order
    removers,          \* the callbacks whose removal function a caller holds
    wrappers,          \* number of callbacks subscribe() has created
    saved,             \* ghost: the arguments of the most recent save() or clear()
    removed,           \* ghost: the callbacks whose removal function was called
    authOp             \* ghost: the last operation on the store

authVars == <<localStorage, storageFallback, baseToken, baseRecord, onChangeCallbacks,
              removers, wrappers, saved, removed, authOp>>

\* realtimeStore (src/unnamed/part_002)
VARIABLES
    subscribers,         \* the Set of store subscribers
    initialized,         \* the flag of initialize()/cleanup()
    unsubscribeRealtime, \* null, or the realtime registration its function removes
    initializing,        \* the initialize() calls suspended at an await
    registrations,       \* handleRealtimeEvent registrations held by the realtime service
    created,             \* number of realtime registrations the store has made
    records,             \* the record list of the store
    fetchInitial,        \* options.fetchInitial (fixed when the store is created)
    storeOp              \* ghost: the last operation on the store

storeVars == <<subscribers, initialized, unsubscribeRealtime, initializing, registrations,
               created, records, fetchInitial, storeOp>>

\* BatchService (src/src/services/RecordService.ts)
VARIABLES
    batchRequests,     \* this.requests: the buffered requests, in the order they were added
    batchSends,        \* bag of send() calls awaiting client.send, each with the body it sent
    batchAdded,        \* ghost: number of requests added so far (they are numbered 1, 2, ...)
    batchDelivered,    \* ghost: the requests that were in the body of a send() that succeeded
    batchOp            \* ghost: the last operation on the batch

batchVars == <<batchRequests, batchSends, batchAdded, batchDelivered, batchOp>>

vars == <<realtimeVars, sendVars, authVars, storeVars, batchVars>>

\* what each component's steps leave alone
nonRealtimeVars == <<sendVars, authVars, storeVars, batchVars>>
nonSendVars == <<realtimeVars, authVars, storeVars, batchVars>>
nonAuthVars == <<realtimeVars, sendVars, storeVars, batchVars>>
nonStoreVars == <<realtimeVars, sendVars, authVars, batchVars>>
nonBatchVars == <<realtimeVars, sendVars, authVars, storeVars>>

\* ------------------------------------------------------------ Map helpers
MapHas(m, t) == \E i \in 1..Len(m) : m[i].topic = t

MapGet(m, t) == (CHOOSE e \in {m[i] : i \in 1..Len(m)} : e.topic = t).subs

MapSet(m, t, v) ==
    IF MapHas(m, t)
    THEN [i \in 1..Len(m) |-> IF m[i].topic = t THEN [topic |-> t, subs |-> v] ELSE m[i]]
    ELSE Append(m, [topic |-> t, subs |-> v])

MapDelete(m, t) == SelectSeq(m, LAMBDA e : e.topic # t)

MapKeys(m) == [i \in 1..Len(m) |-> m[i].topic]

Range(s) == {s[i] : i \in 1..Len(s)}

RECURSIVE TotalSubs(_)
TotalSubs(m) == IF m = <<>> THEN 0 ELSE Len(Head(m).subs) + TotalSubs(Tail(m))

\* a comparison of the whole topic instead of its beginning
StartsWithWhole(s, p) == s = p

StartsWith(s, p) == Len(p) <= Len(s) /\ SubSeq(s, 1, Len(p)) = p

\* ------------------------------------------------------- service helpers
IsConnected(es, cid) == es # Null /\ es.readyState = "OPEN" /\ cid # NoId

Unclosed(es) == es # Null /\ es.readyState # "CLOSED"

\* connect(): the state it leaves and whether it returned without suspending
connect(es, cid, pend, det) ==
    IF IsConnected(es, cid)
    THEN [es |-> es, pend |-> pend, det |-> det, done |-> TRUE]
    ELSE IF es # Null /\ es.readyState = "CONNECTING"
    THEN [es |-> es, pend |-> pend + 1, det |-> det, done |-> FALSE]
    ELSE [es |-> NewEventSource, pend |-> pend + 1,
          det |-> IF Unclosed(es) THEN det \cup {es} ELSE det, done |-> FALSE]

\* disconnect(): onDisconnect is called with the keys when there are any
disconnect(subs) ==
    [es |-> Null, cid |-> NoId, notified |-> MapKeys(subs)]

\* a request body listing every key of the registry
PushBodyAllKeys(cid, subs) == [clientId |-> cid, subscriptions |-> MapKeys(subs)]

\* the body of the request submitSubscriptions() sends
PushBody(cid, subs) ==
    [clientId |-> cid, subscriptions |-> SelectSeq(MapKeys(subs), LAMBDA t : t # PB_CONNECT)]

\* a push whose topic list was collected before the newest entry of the
\* registry was added
submitSubscriptionsStale(cid, subs, infl, n) ==
    IF cid = NoId \/ n = 0 THEN infl
    ELSE infl (+) [p \in {PushBody(cid, IF Len(subs) > 1 THEN SubSeq(subs, 1, Len(subs) - 1)
                                      ELSE subs)} |-> n]

\* a push sent whether or not a clientId is held
submitSubscriptionsUnguarded(cid, subs, infl, n) ==
    IF n = 0 THEN infl ELSE infl (+) [p \in {PushBody(cid, subs)} |-> n]

\* submitSubscriptions() called n times in a row: the requests in flight afterwards
submitSubscriptions(cid, subs, infl, n) ==
    IF cid = NoId \/ n = 0 THEN infl
    ELSE infl (+) [p \in {PushBody(cid, subs)} |-> n]

Pushed(cid, n) == IF cid = NoId THEN 0 ELSE n

\* What Client.send() settles with (PocketBase.ts:299-356): the response, or
\* an error that is a ClientResponseError or not (a hook may throw anything)
\* and that carries isAbort or not.
SendOk == [ok |-> TRUE, cre |-> FALSE, isAbort |-> FALSE]
SendErrors == [ok : {FALSE}, cre : BOOLEAN, isAbort : BOOLEAN]
SendResults == {SendOk} \cup SendErrors

\* a catch clause that swallows every error
submitSwallowsAll(err) == FALSE

\* a catch clause that rethrows every error
submitRethrowsAll(err) == TRUE

\* the catch clause of submitSubscriptions(): does it rethrow err to the caller
\* awaiting it
submitSubscriptionsThrows(err) == ~err.cre \/ ~err.isAbort

Op(name, topic) ==
    [op |-> name, topic |-> topic, invoked |-> <<>>, threw |-> FALSE, pushes |-> 0,
     notified |-> <<>>, hs |-> 0, absent |-> FALSE, after |-> 0, res |-> SendOk,
     surfaced |-> FALSE, rejectedWaiters |-> 0]

\* ------------------------------------------------------------------ Init
\* a Map without entries
EmptyMap == [k \in {} |-> 0]

\* ghost record of an operation on the client
SendOp(name, key) == [op |-> name, key |-> key]

\* new PocketBase(): fields at PocketBase.ts:100-101
SendInit ==
    /\ autoCancellation = TRUE
    /\ cancelControllers = EmptyMap
    /\ requests = <<>>
    /\ sendOp = SendOp("init", <<>>)

\* strings and values of the auth store: '' is the empty string, a raw stored
\* item is the text JSON.stringify wrote (a sequence, <<>> when there is none)
NoToken == ""
NoRecord == "null"
NoItem == <<>>

\* ghost record of an operation on the auth store: the callbacks registered
\* when it began, those it invoked (in order), the callbacks removed before it
AuthOp(name) == [op |-> name, before |-> <<>>, invoked |-> <<>>, gone |-> {}]

\* new LocalAuthStore() on an empty storage: fields at part_001:388-390, 612
AuthInit ==
    /\ localStorage \in [defined : BOOLEAN, item : {NoItem}]
    /\ storageFallback = NoItem
    /\ baseToken = NoToken
    /\ baseRecord = NoRecord
    /\ onChangeCallbacks = <<>>
    /\ removers = {}
    /\ wrappers = 0
    /\ saved = [token |-> NoToken, record |-> NoRecord]
    /\ removed = {}
    /\ authOp = AuthOp("init")

\* records are [id, v]: the id and the rest of the fields
RecordIds == {1, 2}
RecordFields == {"v1", "v2"}
StoreRecords == [id : RecordIds, v : RecordFields]

\* RecordSubscription: e.action and e.record; the server sends create, update
\* and delete
EventActions == {"create", "update", "delete"}
Events == [action : EventActions, record : StoreRecords]
NoEvent == [action |-> "none", record |-> [id |-> 0, v |-> ""]]

\* what options.initialRecords and getFullList() may hold
RecordLists == {<<>>, <<[id |-> 1, v |-> "v1"]>>}

\* ghost record of an operation on the store: the realtime registration it
\* concerns, the subscribers it notified and the event it handled
StoreOp(name) == [op |-> name, reg |-> 0, notified |-> {}, event |-> NoEvent]

\* realtimeStore(pb, collection, options): locals at part_002:193-196
StoreInit ==
    /\ subscribers = {}
    /\ initialized = FALSE
    /\ unsubscribeRealtime = 0
    /\ initializing = EmptyBag
    /\ registrations = {}
    /\ created = 0
    /\ records \in RecordLists
    /\ fetchInitial \in BOOLEAN
    /\ storeOp = StoreOp("init")

\* ghost record of an operation on the batch: whether it issued an HTTP
\* request, and the results it returned
BatchOp(name) == [op |-> name, http |-> FALSE, result |-> <<>>]

\* new BatchService(client): fields at RecordService.ts:549-550
BatchInit ==
    /\ batchRequests = <<>>
    /\ batchSends = EmptyBag
    /\ batchAdded = 0
    /\ batchDelivered = {}
    /\ batchOp = BatchOp("init")

\* new RealtimeService(): fields at SettingsService.ts:150-159
RealtimeInit ==
    /\ subscriptions = <<>>
    /\ eventSource = Null
    /\ clientId = NoId
    /\ reconnectAttempts = 0
    /\ pendingConnects = 0
    /\ retryTimers = 0
    /\ detached = {}
    /\ inflight = EmptyBag
    /\ issued = 0
    /\ serverSubs = <<>>
    /\ live = {}
    /\ failures = 0
    /\ rejected = {}
    /\ lastOp = Op("init", EmptyTopic)

\* the scenario of a run in which the realtime service is not used
NoScenario == Scenario("none", {}, {}, 0, 0, 0, 0, 0, 0, 0)

Init ==
    /\ RealtimeInit
    /\ scn \in Scenarios
    /\ SendInit
    /\ AuthInit
    /\ localStorage.defined
    /\ StoreInit
    /\ records = <<>>
    /\ fetchInitial
    /\ BatchInit

\* --------------------------------------------------------------- subscribe
SubscribeEmptyTopic ==
    /\ lastOp' = Op("subscribeRejected", EmptyTopic)
    /\ UNCHANGED <<subscriptions, eventSource, clientId, reconnectAttempts, pendingConnects,
                   retryTimers, detached, inflight, issued, serverSubs, live, failures, rejected, scn, nonRealtimeVars>>

Subscribe(topic, callback) ==
    LET topicSubs == IF MapHas(subscriptions, topic) THEN MapGet(subscriptions, topic) ELSE <<>>
        subs1 == MapSet(subscriptions, topic, Append(topicSubs, callback))
        c == connect(eventSource, clientId, pendingConnects, detached)
    IN  /\ TotalSubs(subscriptions) < scn.subs
        /\ c.pend <= scn.pending
        /\ Cardinality(c.det) <= scn.detached
        /\ c.done => BagCardinality(inflight) < scn.inflight
        /\ subscriptions' = subs1
        /\ eventSource' = c.es
        /\ pendingConnects' = c.pend
        /\ detached' = c.det
        /\ inflight' = IF c.done THEN submitSubscriptions(clientId, subs1, inflight, 1)
                       ELSE inflight
        /\ live' = live \cup {<<topic, callback>>}
        /\ lastOp' = [Op("subscribe", topic) EXCEPT
                        !.pushes = IF c.done THEN Pushed(clientId, 1) ELSE 0]
        /\ UNCHANGED <<clientId, reconnectAttempts, retryTimers, issued, serverSubs, failures, rejected, scn, nonRealtimeVars>>

\* subscribe() where typeof EventSource is 'undefined': connect() pushes the
\* caller's {resolve, reject} pair and rejects every pending pair at once, so
\* the await at line 200 throws and subscribe() rejects
SubscribeUnavailable(topic, callback) ==
    LET topicSubs == IF MapHas(subscriptions, topic) THEN MapGet(subscriptions, topic) ELSE <<>>
    IN  /\ scn = Unavailable
        /\ TotalSubs(subscriptions) < scn.subs
        /\ subscriptions' = MapSet(subscriptions, topic, Append(topicSubs, callback))
        /\ pendingConnects' = 0
        /\ live' = live \cup {<<topic, callback>>}
        /\ lastOp' = [Op("subscribe", topic) EXCEPT !.rejectedWaiters = pendingConnects + 1]
        /\ UNCHANGED <<eventSource, clientId, reconnectAttempts, retryTimers, detached,
                       inflight, issued, serverSubs, failures, rejected, scn, nonRealtimeVars>>

\* ------------------------------------------------------------- unsubscribe
\* the common tail of the unsubscribe methods: disconnect() when the registry
\* is empty, submitSubscriptions() otherwise
AfterRemoval(subs1, op) ==
    LET d == disconnect(subs1)
    IN  /\ subscriptions' = subs1
        /\ IF Len(subs1) = 0
           THEN /\ eventSource' = d.es
                /\ clientId' = d.cid
                /\ inflight' = inflight
                /\ lastOp' = [op EXCEPT !.notified = d.notified]
           ELSE /\ clientId # NoId => BagCardinality(inflight) < scn.inflight
                /\ inflight' = submitSubscriptions(clientId, subs1, inflight, 1)
                /\ lastOp' = [op EXCEPT !.pushes = Pushed(clientId, 1)]
                /\ UNCHANGED <<eventSource, clientId>>
        /\ UNCHANGED <<reconnectAttempts, pendingConnects, retryTimers, detached, issued,
                       serverSubs, failures, rejected, scn, nonRealtimeVars>>

\* unsubscribe(topic?): EmptyTopic stands for a missing or empty argument
Unsubscribe(topic) ==
    LET subs1 == IF topic = EmptyTopic THEN <<>> ELSE MapDelete(subscriptions, topic)
    IN  /\ live' = IF topic = EmptyTopic THEN {} ELSE {p \in live : p[1] # topic}
        /\ AfterRemoval(subs1, [Op("unsubscribe", topic) EXCEPT
                                  !.absent = topic # EmptyTopic /\ ~MapHas(subscriptions, topic)])

UnsubscribeByPrefix(topicPrefix) ==
    LET subs1 == SelectSeq(subscriptions, LAMBDA e : ~StartsWith(e.topic, topicPrefix))
    IN  /\ live' = {p \in live : ~StartsWith(p[1], topicPrefix)}
        /\ AfterRemoval(subs1, [Op("unsubscribeByPrefix", topicPrefix) EXCEPT
                                  !.absent = subs1 = subscriptions])

\* a removal that takes only the first registration of the callback
removeListenerFirstOnly(m, topic, callback) ==
    LET topicSubs == MapGet(m, topic)
        first == IF callback \in Range(topicSubs)
                 THEN CHOOSE i \in 1..Len(topicSubs) :
                         /\ topicSubs[i] = callback
                         /\ \A j \in 1..(i - 1) : topicSubs[j] # callback
                 ELSE 0
        filtered == [i \in 1..(Len(topicSubs) - (IF first = 0 THEN 0 ELSE 1)) |->
                        IF first = 0 \/ i < first THEN topicSubs[i] ELSE topicSubs[i + 1]]
    IN  IF Len(filtered) = 0 THEN MapDelete(m, topic) ELSE MapSet(m, topic, filtered)

\* a removal that leaves the emptied entry in the Map
removeListenerKeepsEntry(m, topic, callback) ==
    MapSet(m, topic, SelectSeq(MapGet(m, topic), LAMBDA s : s # callback))

\* the registry unsubscribeByTopicAndListener leaves for a topic that is present
removeListener(m, topic, callback) ==
    LET filtered == SelectSeq(MapGet(m, topic), LAMBDA s : s # callback)
    IN  IF Len(filtered) = 0 THEN MapDelete(m, topic) ELSE MapSet(m, topic, filtered)

UnsubscribeByTopicAndListener(topic, callback) ==
    IF ~MapHas(subscriptions, topic)
    THEN /\ lastOp' = [Op("unsubscribeByTopicAndListener", topic) EXCEPT !.absent = TRUE]
         /\ UNCHANGED <<subscriptions, eventSource, clientId, reconnectAttempts,
                        pendingConnects, retryTimers, detached, inflight, issued, serverSubs,
                        live, failures, rejected, scn, nonRealtimeVars>>
    ELSE LET topicSubs == MapGet(subscriptions, topic)
             subs1 == removeListener(subscriptions, topic, callback)
         IN  /\ live' = live \ {<<topic, callback>>}
             /\ AfterRemoval(subs1, [Op("unsubscribeByTopicAndListener", topic) EXCEPT
                                       !.absent = callback \notin Range(topicSubs)])

\* ------------------------------------------------------ EventSource events
\* An event fires on the EventSource d, which is this.eventSource (cur) or a
\* detached one; it has not been closed by close().
Fires(cur, d) == IF cur THEN d = eventSource /\ Unclosed(d) ELSE d \in detached

EsAfter(cur, d2) == IF cur THEN d2 ELSE eventSource

DetAfter(cur, d, d2) ==
    IF cur THEN detached
    ELSE (detached \ {d}) \cup (IF d2.readyState = "CLOSED" THEN {} ELSE {d2})

\* onopen
EsOpen(cur, d) ==
    /\ Fires(cur, d)
    /\ d.readyState = "CONNECTING"
    /\ eventSource' = EsAfter(cur, [d EXCEPT !.readyState = "OPEN"])
    /\ detached' = DetAfter(cur, d, [d EXCEPT !.readyState = "OPEN"])
    /\ reconnectAttempts' = 0
    /\ lastOp' = Op("open", EmptyTopic)
    /\ UNCHANGED <<subscriptions, clientId, pendingConnects, retryTimers, inflight, issued,
                   serverSubs, live, failures, rejected, scn, nonRealtimeVars>>

\* onerror -> handleDisconnect(); the browser either retries the stream
\* (CONNECTING) or gives it up (CLOSED)
EsError(cur, d, fatal) ==
    LET d2 == [readyState |-> IF fatal THEN "CLOSED" ELSE "CONNECTING", hs |-> 0]
        dis == disconnect(subscriptions)
    IN  /\ Fires(cur, d)
        /\ failures < scn.failures
        /\ detached' = DetAfter(cur, d, d2)
        /\ failures' = failures + 1
        /\ IF reconnectAttempts >= maxReconnectAttempts
           THEN /\ eventSource' = dis.es
                /\ clientId' = dis.cid
                /\ lastOp' = [Op("error", EmptyTopic) EXCEPT !.notified = dis.notified]
                /\ UNCHANGED <<reconnectAttempts, retryTimers>>
           ELSE /\ retryTimers < scn.timers
                /\ eventSource' = EsAfter(cur, d2)
                /\ reconnectAttempts' = reconnectAttempts + 1
                /\ retryTimers' = retryTimers + 1
                /\ lastOp' = Op("error", EmptyTopic)
                /\ UNCHANGED clientId
        /\ UNCHANGED <<subscriptions, pendingConnects, inflight, issued, serverSubs, live, rejected, scn, nonRealtimeVars>>

\* a retry callback that drops the registry before it reconnects
TimerFireClearsRegistry ==
    /\ retryTimers > 0
    /\ retryTimers' = retryTimers - 1
    /\ subscriptions' = <<>>
    /\ lastOp' = Op("timer", EmptyTopic)
    /\ UNCHANGED <<eventSource, clientId, pendingConnects, detached, reconnectAttempts,
                   inflight, issued, serverSubs, live, failures, rejected, scn, nonRealtimeVars>>

\* the setTimeout callback of handleDisconnect
TimerFire ==
    LET c == connect(Null, NoId, pendingConnects, detached)
    IN  /\ retryTimers > 0
        /\ retryTimers' = retryTimers - 1
        /\ IF Len(subscriptions) > 0
           THEN /\ c.pend <= scn.pending
                /\ eventSource' = c.es
                /\ clientId' = NoId
                /\ pendingConnects' = c.pend
                /\ detached' = c.det
           ELSE UNCHANGED <<eventSource, clientId, pendingConnects, detached>>
        /\ lastOp' = Op("timer", EmptyTopic)
        /\ UNCHANGED <<subscriptions, reconnectAttempts, inflight, issued, serverSubs, live,
                       failures, rejected, scn, nonRealtimeVars>>

\* the PB_CONNECT listener; k is the position of the first PB_CONNECT
\* subscriber that throws (0: none does)
EsHandshake(cur, d, k) ==
    LET id == issued + 1
        d2 == [d EXCEPT !.hs = id]
        connectSubs == IF MapHas(subscriptions, PB_CONNECT)
                       THEN MapGet(subscriptions, PB_CONNECT) ELSE <<>>
    IN  /\ Fires(cur, d)
        /\ d.readyState = "OPEN"
        /\ d.hs = 0
        /\ issued < scn.ids
        /\ k \in 0..Len(connectSubs)
        /\ k = 0 => BagCardinality(inflight) + pendingConnects <= scn.inflight
        /\ issued' = id
        /\ serverSubs' = Append(serverSubs, {})
        /\ eventSource' = EsAfter(cur, d2)
        /\ detached' = DetAfter(cur, d, d2)
        /\ clientId' = id
        /\ pendingConnects' = 0
        /\ inflight' = IF k = 0
                       THEN submitSubscriptions(id, subscriptions, inflight, pendingConnects)
                       ELSE inflight
        /\ failures' = 0
        /\ lastOp' = [Op("handshake", PB_CONNECT) EXCEPT
                        !.invoked = IF k = 0 THEN connectSubs ELSE SubSeq(connectSubs, 1, k),
                        !.threw = k > 0,
                        !.pushes = IF k = 0 THEN pendingConnects ELSE 0,
                        !.hs = id,
                        !.after = failures,
                        !.rejectedWaiters = IF k = 0 THEN 0 ELSE pendingConnects]
        /\ UNCHANGED <<subscriptions, reconnectAttempts, retryTimers, live, rejected, scn, nonRealtimeVars>>

\* onmessage; topic EmptyTopic stands for a frame without a topic; k is the
\* position of the first subscriber that throws (0: none does).  The stream
\* is ordered: data frames follow the handshake frame of their connection, and
\* the control topic arrives as the PB_CONNECT event, never as a data frame.
EsMessage(cur, d, topic, k) ==
    LET topicSubs == IF MapHas(subscriptions, topic) THEN MapGet(subscriptions, topic)
                     ELSE <<>>
    IN  /\ Fires(cur, d)
        /\ d.readyState = "OPEN"
        /\ d.hs # 0
        /\ k \in 0..Len(topicSubs)
        /\ lastOp' = [Op("message", topic) EXCEPT
                        !.invoked = IF k = 0 THEN topicSubs ELSE SubSeq(topicSubs, 1, k),
                        !.threw = k > 0,
                        !.hs = d.hs]
        /\ UNCHANGED <<subscriptions, eventSource, clientId, reconnectAttempts,
                       pendingConnects, retryTimers, detached, inflight, issued, serverSubs,
                       live, failures, rejected, scn, nonRealtimeVars>>

\* ------------------------------------------------------------------ server
\* One of the requests in flight settles with res, and the submitSubscriptions()
\* call awaiting it returns or throws to the subscribe/unsubscribe call (or the
\* retry chain) awaiting that; requests sent with requestKey null have no abort
\* controller of their own.  The server applies the requests it answers ok.
ServerHandle(p, res) ==
    /\ p \in BagToSet(inflight)
    /\ inflight' = inflight (-) SetToBag({p})
    /\ serverSubs' = IF res.ok /\ p.clientId \in DOMAIN serverSubs
                     THEN [serverSubs EXCEPT ![p.clientId] = Range(p.subscriptions)]
                     ELSE serverSubs
    /\ rejected' = IF res.ok THEN rejected ELSE rejected \cup {p.clientId}
    /\ lastOp' = [Op(IF res.ok THEN "accepted" ELSE "rejected", EmptyTopic) EXCEPT
                    !.hs = p.clientId,
                    !.res = res,
                    !.surfaced = ~res.ok /\ submitSubscriptionsThrows(res)]
    /\ UNCHANGED <<subscriptions, eventSource, clientId, reconnectAttempts, pendingConnects,
                   retryTimers, detached, issued, live, failures, scn, nonRealtimeVars>>

\* -------------------------------------------------------------------- Next
Sources == {<<TRUE, eventSource>>} \cup {<<FALSE, d>> : d \in detached}

Next ==
    \/ SubscribeEmptyTopic
    \/ \E t \in scn.topics, cb \in scn.callbacks : Subscribe(t, cb)
    \/ \E t \in scn.topics, cb \in scn.callbacks : SubscribeUnavailable(t, cb)
    \/ \E t \in scn.topics \cup {EmptyTopic} : Unsubscribe(t)
    \/ \E p \in Prefixes : UnsubscribeByPrefix(p)
    \/ \E t \in scn.topics, cb \in Callbacks : UnsubscribeByTopicAndListener(t, cb)
    \/ \E s \in Sources : EsOpen(s[1], s[2])
    \/ \E s \in Sources, fatal \in BOOLEAN : EsError(s[1], s[2], fatal)
    \/ \E s \in Sources, k \in 0..MaxSubs : EsHandshake(s[1], s[2], k)
    \/ \E s \in Sources, t \in (scn.topics \ {PB_CONNECT}) \cup {EmptyTopic}, k \in 0..MaxSubs :
           EsMessage(s[1], s[2], t, k)
    \/ TimerFire
    \/ \E p \in BagToSet(inflight), res \in SendResults : ServerHandle(p, res)

Spec == Init /\ [][Next]_vars

\* ============================================================ PocketBase
\* Request keys are strings, modelled as sequences of characters so that the
\* default key `${method} ${path}` and an explicit key can coincide.
GET == <<"G", "E", "T">>
PathA == <<"/", "a">>
PathB == <<"/", "b">>

\* options.requestKey: absent, null or a string
Undefined == [kind |-> "undefined", key |-> <<>>]
NullKey == [kind |-> "null", key |-> <<>>]
StringKey(k) == [kind |-> "string", key |-> k]

Methods == {GET}
Paths == {PathA, PathB}
ExplicitKeys == {<<"k">>, GET \o <<" ">> \o PathA}
RequestKeyOptions == {Undefined, NullKey} \cup {StringKey(k) : k \in ExplicitKeys}
CancelKeys == ExplicitKeys \cup {m \o <<" ">> \o q : m \in Methods, q \in Paths}

MapDel(m, k) == [x \in DOMAIN m \ {k} |-> m[x]]

MapPut(m, k, v) == [x \in DOMAIN m \cup {k} |-> IF x = k THEN v ELSE m[x]]

\* the key send() works with (PocketBase.ts:274-277)
requestKey(opt, method, path, auto) ==
    IF opt.kind = "undefined" /\ auto THEN StringKey(method \o <<" ">> \o path) ELSE opt

\* requestKey !== null && requestKey !== undefined
HasKey(key) == key.kind = "string"

\* cancelRequest(cancelKey): the controllers and the requests it leaves
cancelRequest(ctrls, reqs, cancelKey) ==
    IF cancelKey \in DOMAIN ctrls
    THEN [ctrls |-> MapDel(ctrls, cancelKey),
          reqs |-> [reqs EXCEPT ![ctrls[cancelKey]].aborted = TRUE]]
    ELSE [ctrls |-> ctrls, reqs |-> reqs]

\* send() up to the fetch call: the key, the cancellation of the request
\* registered under it, the new controller
Send(method, path, opt) ==
    LET key == requestKey(opt, method, path, autoCancellation)
        c == IF HasKey(key) THEN cancelRequest(cancelControllers, requests, key.key)
             ELSE [ctrls |-> cancelControllers, reqs |-> requests]
        id == Len(requests) + 1
    IN  /\ Len(requests) < MaxRequests
        /\ requests' = Append(c.reqs, [key |-> key, aborted |-> FALSE, state |-> "pending"])
        /\ cancelControllers' = IF HasKey(key) THEN MapPut(c.ctrls, key.key, id) ELSE c.ctrls
        /\ sendOp' = SendOp("send", key.key)
        /\ UNCHANGED <<autoCancellation, nonSendVars>>

\* the fetch of request id settles: an aborted one rejects with AbortError
\* (ClientResponseError with isAbort), another one resolves (ok) or fails;
\* in each case send() deletes the controller registered under its key
FetchSettles(id, ok) ==
    LET r == requests[id]
    IN  /\ r.state = "pending"
        /\ r.aborted => ok
        /\ requests' = [requests EXCEPT ![id].state =
                           IF r.aborted THEN "abort" ELSE IF ok THEN "ok" ELSE "error"]
        /\ cancelControllers' = IF HasKey(r.key) THEN MapDel(cancelControllers, r.key.key)
                                ELSE cancelControllers
        /\ sendOp' = SendOp("settle", r.key.key)
        /\ UNCHANGED <<autoCancellation, nonSendVars>>

CancelRequest(cancelKey) ==
    LET c == cancelRequest(cancelControllers, requests, cancelKey)
    IN  /\ cancelControllers' = c.ctrls
        /\ requests' = c.reqs
        /\ sendOp' = SendOp("cancelRequest", cancelKey)
        /\ UNCHANGED <<autoCancellation, nonSendVars>>

CancelAllRequests ==
    /\ requests' = [i \in 1..Len(requests) |->
                      IF \E k \in DOMAIN cancelControllers : cancelControllers[k] = i
                      THEN [requests[i] EXCEPT !.aborted = TRUE] ELSE requests[i]]
    /\ cancelControllers' = EmptyMap
    /\ sendOp' = SendOp("cancelAllRequests", <<>>)
    /\ UNCHANGED <<autoCancellation, nonSendVars>>

AutoCancellation(enable) ==
    /\ autoCancellation' = enable
    /\ sendOp' = SendOp("autoCancellation", <<>>)
    /\ UNCHANGED <<cancelControllers, requests, nonSendVars>>

SendNext ==
    \/ \E m \in Methods, q \in Paths, opt \in RequestKeyOptions : Send(m, q, opt)
    \/ \E i \in 1..Len(requests), ok \in BOOLEAN : FetchSettles(i, ok)
    \/ \E k \in CancelKeys : CancelRequest(k)
    \/ CancelAllRequests
    \/ \E enable \in BOOLEAN : AutoCancellation(enable)

SendSpecInit ==
    /\ RealtimeInit
    /\ scn = NoScenario
    /\ SendInit
    /\ AuthInit
    /\ localStorage.defined
    /\ StoreInit
    /\ records = <<>>
    /\ fetchInitial
    /\ BatchInit

SendSpec == SendSpecInit /\ [][SendNext]_vars

\* ============================================================ auth store
Tokens == {NoToken, "t1", "t2"}
Records == {NoRecord, "r1"}

\* The functions callers register: f1 only records what it is given; once
\* calls the removal function it was given as soon as it is told of a change.
AuthFns == {"f1", "once"}

\* a registered callback: the caller's function itself (onChange), or the
\* wrap-th arrow function a subscribe() method created around it
Callback(fn, wrap) == [fn |-> fn, wrap |-> wrap]

\* a || b for the values used here
Or(a, b) == IF a \in {"", "null", "undefined"} THEN b ELSE a

\* JSON.stringify({token, record}) and JSON.parse of such a text
Stringify(data) == <<"{", data.token, data.record, "}">>
Parse(raw) == [token |-> raw[2], record |-> raw[3]]

\* _storageGetRaw(): localStorage when it is defined, the fallback otherwise
storageGetRaw(ls, fb) == IF ls.defined THEN ls.item ELSE fb

\* _storageGet()
storageGet(ls, fb) ==
    IF storageGetRaw(ls, fb) = NoItem THEN [token |-> "undefined", record |-> "undefined"]
    ELSE Parse(storageGetRaw(ls, fb))

\* the token and record getters of LocalAuthStore
token(ls, fb) == Or(storageGet(ls, fb).token, NoToken)
record(ls, fb) == Or(storageGet(ls, fb).record, NoRecord)

\* _storageSet(data); setItem may throw (quota, private mode)
storageSet(ls, fb, data, throws) ==
    IF ls.defined /\ ~throws
    THEN [ls |-> [ls EXCEPT !.item = Stringify(data)], fb |-> fb]
    ELSE [ls |-> ls, fb |-> Stringify(data)]

\* _storageRemove()
storageRemove(ls, fb) ==
    IF ls.defined THEN [ls |-> [ls EXCEPT !.item = NoItem], fb |-> fb]
    ELSE [ls |-> ls, fb |-> NoItem]

\* indexOf(callback) and splice(index, 1)
removeCallback(cbs, cb) ==
    IF \E i \in 1..Len(cbs) : cbs[i] = cb
    THEN LET index == CHOOSE i \in 1..Len(cbs) :
                          cbs[i] = cb /\ \A j \in 1..(i - 1) : cbs[j] # cb
         IN  SubSeq(cbs, 1, index - 1) \o SubSeq(cbs, index + 1, Len(cbs))
    ELSE cbs

\* triggerChange(): for...of over the live array from position i on; a callback
\* that calls its removal function splices the array under the iteration
RECURSIVE triggerChange(_, _, _, _, _)
triggerChange(cbs, i, invoked, gone, held) ==
    IF i > Len(cbs) THEN [cbs |-> cbs, invoked |-> invoked, gone |-> gone]
    ELSE LET cb == cbs[i]
             removes == cb.fn = "once" /\ cb \in held
         IN  triggerChange(IF removes THEN removeCallback(cbs, cb) ELSE cbs, i + 1,
                           Append(invoked, cb),
                           IF removes THEN gone \cup {cb} ELSE gone, held)

\* the common end of save() and clear(): BaseAuthStore sets its fields and
\* triggers the change
Changed(op, tok, rec, st) ==
    LET t == triggerChange(onChangeCallbacks, 1, <<>>, removed, removers)
    IN  /\ localStorage' = st.ls
        /\ storageFallback' = st.fb
        /\ baseToken' = tok
        /\ baseRecord' = rec
        /\ saved' = [token |-> tok, record |-> rec]
        /\ onChangeCallbacks' = t.cbs
        /\ removed' = t.gone
        /\ authOp' = [AuthOp(op) EXCEPT !.before = onChangeCallbacks,
                                        !.invoked = t.invoked,
                                        !.gone = removed]
        /\ UNCHANGED <<removers, wrappers, nonAuthVars>>

\* LocalAuthStore.save(token, record)
Save(tok, rec, throws) ==
    /\ throws => localStorage.defined
    /\ Changed("save", Or(tok, NoToken), rec,
               storageSet(localStorage, storageFallback,
                          [token |-> Or(tok, NoToken), record |-> rec], throws))

\* LocalAuthStore.clear()
Clear ==
    Changed("clear", NoToken, NoRecord, storageRemove(localStorage, storageFallback))

\* a callback is pushed and its removal function returned; immediate tells
\* whether the caller's function is invoked with the current state
Register(op, cb, immediate) ==
    /\ Len(onChangeCallbacks) < MaxCallbacks
    /\ onChangeCallbacks' = Append(onChangeCallbacks, cb)
    /\ removers' = removers \cup {cb}
    /\ removed' = removed \ {cb}
    /\ authOp' = [AuthOp(op) EXCEPT !.before = <<cb>>,
                                    !.invoked = IF immediate THEN <<cb>> ELSE <<>>]
    /\ UNCHANGED <<localStorage, storageFallback, baseToken, baseRecord, saved, nonAuthVars>>

\* authStore.onChange(callback, fireImmediately)
OnChange(fn, fireImmediately) ==
    /\ Register(IF fireImmediately THEN "onChangeImmediately" ELSE "onChange",
                Callback(fn, 0), fireImmediately)
    /\ UNCHANGED wrappers

\* authStore.subscribe(run), which the authState store forwards to
AuthSubscribe(run) ==
    /\ wrappers < MaxWrappers
    /\ wrappers' = wrappers + 1
    /\ Register("subscribe", Callback(run, wrappers + 1), TRUE)

\* the subscribe(run) of the user store of createPocketBase
UserSubscribe(run) ==
    /\ wrappers < MaxWrappers
    /\ wrappers' = wrappers + 1
    /\ Register("userSubscribe", Callback(run, wrappers + 1), TRUE)

\* a caller calls the removal function it was returned for cb
Remove(cb) ==
    /\ cb \in removers
    /\ onChangeCallbacks' = removeCallback(onChangeCallbacks, cb)
    /\ removed' = removed \cup {cb}
    /\ authOp' = [AuthOp("remove") EXCEPT !.before = <<cb>>]
    /\ UNCHANGED <<localStorage, storageFallback, baseToken, baseRecord, removers, wrappers,
                   saved, nonAuthVars>>

AuthNext ==
    \/ \E tok \in Tokens, rec \in Records, throws \in BOOLEAN : Save(tok, rec, throws)
    \/ Clear
    \/ \E fn \in AuthFns, fireImmediately \in BOOLEAN : OnChange(fn, fireImmediately)
    \/ \E run \in AuthFns : AuthSubscribe(run)
    \/ \E run \in AuthFns : UserSubscribe(run)
    \/ \E cb \in removers : Remove(cb)

AuthSpecInit ==
    /\ RealtimeInit
    /\ scn = NoScenario
    /\ SendInit
    /\ AuthInit
    /\ StoreInit
    /\ records = <<>>
    /\ fetchInitial
    /\ BatchInit

AuthSpec == AuthSpecInit /\ [][AuthNext]_vars

\* ========================================================= realtimeStore
\* the run functions of the store's subscribers
StoreRuns == {"s1", "s2"}

\* initialize() (part_002:219-238) from its first statement to its first
\* await.  fetch: fetchInitial is set and the record list is empty, so the
\* call awaits getFullList; otherwise it calls collection.subscribe, whose
\* realtime.subscribe registers handleRealtimeEvent at once and is awaited.
\* The result: the flag, the suspended calls, the registrations, their count.
initialize(init, susp, regs, n, fetch) ==
    IF init THEN [init |-> init, susp |-> susp, regs |-> regs, n |-> n]
    ELSE IF fetch
    THEN [init |-> TRUE, susp |-> susp (+) SetToBag({[pc |-> "fetch", reg |-> 0]}),
          regs |-> regs, n |-> n]
    ELSE [init |-> TRUE, susp |-> susp (+) SetToBag({[pc |-> "subscribe", reg |-> n + 1]}),
          regs |-> regs \cup {n + 1}, n |-> n + 1]

\* cleanup() (part_002:240-246): the registration the stored function
\* removes, if any, is removed from the realtime service
cleanup(unsub, regs) ==
    [unsub |-> 0, init |-> FALSE, regs |-> IF unsub # 0 THEN regs \ {unsub} ELSE regs]

\* store.subscribe(run)
StoreSubscribe(run) ==
    LET subs1 == subscribers \cup {run}
        fetch == fetchInitial /\ Len(records) = 0
        i == IF Cardinality(subs1) = 1
             THEN initialize(initialized, initializing, registrations, created, fetch)
             ELSE [init |-> initialized, susp |-> initializing, regs |-> registrations,
                   n |-> created]
    IN  /\ BagCardinality(i.susp) <= MaxInitializing
        /\ i.n <= MaxCreated
        /\ subscribers' = subs1
        /\ initialized' = i.init
        /\ initializing' = i.susp
        /\ registrations' = i.regs
        /\ created' = i.n
        /\ storeOp' = [StoreOp("subscribe") EXCEPT !.notified = {run}]
        /\ UNCHANGED <<unsubscribeRealtime, records, fetchInitial, nonStoreVars>>

\* the function store.subscribe(run) returned
StoreUnsubscribe(run) ==
    LET subs1 == subscribers \ {run}
        c == IF subs1 = {} THEN cleanup(unsubscribeRealtime, registrations)
             ELSE [unsub |-> unsubscribeRealtime, init |-> initialized, regs |-> registrations]
    IN  /\ run \in subscribers
        /\ subscribers' = subs1
        /\ unsubscribeRealtime' = c.unsub
        /\ initialized' = c.init
        /\ registrations' = c.regs
        /\ storeOp' = StoreOp("unsubscribe")
        /\ UNCHANGED <<initializing, created, records, fetchInitial, nonStoreVars>>

\* getFullList settles for a suspended initialize(): on success the records
\* are stored, the subscribers notified and collection.subscribe called; on
\* failure the catch clause calls onError and the call ends
FetchDone(ok, result) ==
    LET call == [pc |-> "fetch", reg |-> 0]
        rest == initializing (-) SetToBag({call})
    IN  /\ BagIn(call, initializing)
        /\ ok => created < MaxCreated
        /\ initializing' = IF ok THEN rest (+) SetToBag({[pc |-> "subscribe", reg |-> created + 1]})
                           ELSE rest
        /\ registrations' = IF ok THEN registrations \cup {created + 1} ELSE registrations
        /\ created' = IF ok THEN created + 1 ELSE created
        /\ storeOp' = [StoreOp(IF ok THEN "fetched" ELSE "fetchFailed") EXCEPT
                         !.notified = IF ok THEN subscribers ELSE {}]
        /\ records' = IF ok THEN result ELSE records
        /\ UNCHANGED <<subscribers, initialized, unsubscribeRealtime, fetchInitial, nonStoreVars>>

\* collection.subscribe settles for a suspended initialize(): on success its
\* unsubscribe function is stored; on failure onError is called, and the
\* registration realtime.subscribe made stays in the realtime service
SubscribeDone(call, ok) ==
    /\ BagIn(call, initializing)
    /\ call.pc = "subscribe"
    /\ initializing' = initializing (-) SetToBag({call})
    /\ unsubscribeRealtime' = IF ok THEN call.reg ELSE unsubscribeRealtime
    /\ storeOp' = [StoreOp(IF ok THEN "subscribed" ELSE "subscribeFailed") EXCEPT
                     !.reg = call.reg]
    /\ UNCHANGED <<subscribers, initialized, registrations, created, records, fetchInitial,
                   nonStoreVars>>

\* an update that removes the record and appends its new version
handleRealtimeEventReorders(recs, e) ==
    CASE e.action = "create" -> Append(recs, e.record)
      [] e.action = "update" ->
            IF \E i \in 1..Len(recs) : recs[i].id = e.record.id
            THEN Append(SelectSeq(recs, LAMBDA r : r.id # e.record.id), e.record)
            ELSE recs
      [] e.action = "delete" -> SelectSeq(recs, LAMBDA r : r.id # e.record.id)
      [] OTHER -> recs

\* the switch of handleRealtimeEvent(e): the record list it leaves
handleRealtimeEvent(recs, e) ==
    CASE e.action = "create" -> Append(recs, e.record)
      [] e.action = "update" ->
            [i \in 1..Len(recs) |-> IF recs[i].id = e.record.id THEN e.record ELSE recs[i]]
      [] e.action = "delete" -> SelectSeq(recs, LAMBDA r : r.id # e.record.id)
      [] OTHER -> recs

\* handleRealtimeEvent(e) called through a registration the realtime service
\* holds: the event is applied and the store's subscribers are notified
RealtimeEvent(reg, e) ==
    /\ reg \in registrations
    /\ e.action = "create" => Len(records) < MaxRecords
    /\ records' = handleRealtimeEvent(records, e)
    /\ storeOp' = [StoreOp("event") EXCEPT !.reg = reg, !.notified = subscribers,
                                           !.event = e]
    /\ UNCHANGED <<subscribers, initialized, unsubscribeRealtime, initializing,
                   registrations, created, fetchInitial, nonStoreVars>>

\* the events sent while the initialization of the store is explored: a
\* record is created and deleted
StoreEvents ==
    {e \in Events : e.record = [id |-> 1, v |-> "v1"] /\ e.action \in {"create", "delete"}}

StoreNext ==
    \/ \E run \in StoreRuns : StoreSubscribe(run)
    \/ \E run \in StoreRuns : StoreUnsubscribe(run)
    \/ \E ok \in BOOLEAN, result \in RecordLists : FetchDone(ok, result)
    \/ \E call \in BagToSet(initializing), ok \in BOOLEAN : SubscribeDone(call, ok)
    \/ \E reg \in registrations, e \in StoreEvents : RealtimeEvent(reg, e)

StoreSpecInit ==
    /\ RealtimeInit
    /\ scn = NoScenario
    /\ SendInit
    /\ AuthInit
    /\ localStorage.defined
    /\ StoreInit
    /\ BatchInit

StoreSpec == StoreSpecInit /\ [][StoreNext]_vars

\* The event handler in depth: a store whose initialization has completed
\* (one realtime registration, its unsubscribe function stored) receives
\* every event, with any set of subscribers.
EventNext == \E reg \in registrations, e \in Events : RealtimeEvent(reg, e)

EventSpecInit ==
    /\ RealtimeInit
    /\ scn = NoScenario
    /\ SendInit
    /\ AuthInit
    /\ localStorage.defined
    /\ subscribers \in SUBSET StoreRuns
    /\ initialized = TRUE
    /\ unsubscribeRealtime = 1
    /\ initializing = EmptyBag
    /\ registrations = {1}
    /\ created = 1
    /\ records \in RecordLists
    /\ fetchInitial \in BOOLEAN
    /\ storeOp = [StoreOp("subscribed") EXCEPT !.reg = 1]
    /\ BatchInit

EventSpec == EventSpecInit /\ [][EventNext]_vars

\* ============================================================ BatchService
\* addRequest(request), also called by collection().create/update/delete/
\* upsert
AddRequest ==
    /\ batchAdded < MaxBatchRequests
    /\ batchAdded' = batchAdded + 1
    /\ batchRequests' = Append(batchRequests, batchAdded + 1)
    /\ batchOp' = BatchOp("addRequest")
    /\ UNCHANGED <<batchSends, batchDelivered, nonBatchVars>>

\* send() up to its await: nothing is sent for an empty buffer; otherwise
\* client.send serialises the body (JSON.stringify, PocketBase.ts:238-256)
\* before its first await, so the request carries the buffer as it is now
BatchSend ==
    IF Len(batchRequests) = 0
    THEN /\ batchOp' = BatchOp("sendEmpty")
         /\ UNCHANGED <<batchRequests, batchSends, batchAdded, batchDelivered, nonBatchVars>>
    ELSE /\ BagCardinality(batchSends) < MaxBatchSends
         /\ batchSends' = batchSends (+) SetToBag({batchRequests})
         /\ batchOp' = [BatchOp("send") EXCEPT !.http = TRUE]
         /\ UNCHANGED <<batchRequests, batchAdded, batchDelivered, nonBatchVars>>

\* this.requests = [] after the await
clearRequests(reqs, body) == <<>>

\* client.send settles for a suspended send(): on success the buffer is
\* cleared and the results returned; on failure the exception leaves send()
\* before the buffer is touched
BatchSettles(body, ok) ==
    /\ BagIn(body, batchSends)
    /\ batchSends' = batchSends (-) SetToBag({body})
    /\ batchRequests' = IF ok THEN clearRequests(batchRequests, body) ELSE batchRequests
    /\ batchDelivered' = IF ok THEN batchDelivered \cup {body[i] : i \in 1..Len(body)}
                         ELSE batchDelivered
    /\ batchOp' = [BatchOp(IF ok THEN "sent" ELSE "sendFailed") EXCEPT
                     !.result = IF ok THEN body ELSE <<>>]
    /\ UNCHANGED <<batchAdded, nonBatchVars>>

BatchNext ==
    \/ AddRequest
    \/ BatchSend
    \/ \E body \in BagToSet(batchSends), ok \in BOOLEAN : BatchSettles(body, ok)

BatchSpecInit ==
    /\ RealtimeInit
    /\ scn = NoScenario
    /\ SendInit
    /\ AuthInit
    /\ localStorage.defined
    /\ StoreInit
    /\ records = <<>>
    /\ fetchInitial
    /\ BatchInit

BatchSpec == BatchSpecInit /\ [][BatchNext]_vars

\* ------------------------------------------------------------------ claims
UnsubscribeOps == {"unsubscribe", "unsubscribeByPrefix", "unsubscribeByTopicAndListener"}

\* EventSources on which close() was not called and that the browser has not
\* given up
OpenConnections == (IF Unclosed(eventSource) THEN 1 ELSE 0) + Cardinality(detached)

\* the subscribers registered for a topic, in registration order
SubscribersOf(t) == IF MapHas(subscriptions, t) THEN MapGet(subscriptions, t) ELSE <<>>

\* the topic set a registration push would carry
Snapshot == Range(PushBody(clientId, subscriptions).subscriptions)

\* C1: at most one un-closed EventSource exists per RealtimeService in every
\* reachable state, however many subscribe() calls are made before the
\* handshake frame arrives.
C1_AtMostOneConnection == OpenConnections <= 1

\* C2: the keys of the registry are exactly the topics that have at least one
\* live subscriber, each entry lists exactly the live callbacks of its topic,
\* and no entry has an empty subscriber list.
C2_RegistryMatchesLive ==
    /\ Range(MapKeys(subscriptions)) = {p[1] : p \in live}
    /\ \A i \in 1..Len(subscriptions) :
          /\ Len(subscriptions[i].subs) > 0
          /\ Range(subscriptions[i].subs) = {p[2] : p \in {q \in live : q[1] = subscriptions[i].topic}}
          /\ \A j \in 1..Len(subscriptions) : subscriptions[j].topic = subscriptions[i].topic => j = i

\* an unsubscribe handle removed the last subscriber of a topic while another
\* topic stayed registered
C2_Witness ==
    /\ lastOp.op = "unsubscribeByTopicAndListener"
    /\ ~lastOp.absent
    /\ ~MapHas(subscriptions, lastOp.topic)
    /\ Len(subscriptions) > 0

\* C3: after maxReconnectAttempts consecutive connection failures without a
\* handshake in between, with subscribers registered, the service is
\* Disconnected (connection closed, identity cleared, no retry pending) and
\* onDisconnect was invoked with exactly the registered topics.
C3_DisconnectedAfterMaxFailures ==
    (lastOp.op = "error" /\ failures >= maxReconnectAttempts /\ Len(subscriptions) > 0)
        => /\ eventSource = Null
           /\ clientId = NoId
           /\ retryTimers = 0
           /\ lastOp.notified = MapKeys(subscriptions)

\* C4: a registration push requested while an earlier one is in flight cancels
\* the earlier one, so at most one registration push is in flight at any time.
C4_AtMostOnePushInFlight == BagCardinality(inflight) <= 1

\* C5: once the connection is open, no retry or connect is pending and every
\* registration push has been answered (none of them refused, the last answer
\* being for the current clientId), the topic set the server holds for the
\* current clientId is the registry's topic snapshot.
C5_ServerConverges ==
    ( /\ IsConnected(eventSource, clientId)
      /\ inflight = EmptyBag
      /\ pendingConnects = 0
      /\ retryTimers = 0
      /\ rejected = {}
      /\ detached = {}
      /\ lastOp.op = "accepted"
      /\ lastOp.hs = clientId )
        => serverSubs[clientId] = Snapshot

\* C6: a data frame for topic t invokes every subscriber registered for t, once
\* each, in registration order, and no subscriber of another topic.
C6_FrameReachesAllSubscribers ==
    lastOp.op = "message" => lastOp.invoked = SubscribersOf(lastOp.topic)

\* C7: when a subscriber callback throws during the dispatch of a data frame,
\* the remaining subscribers of the topic are still invoked for that frame.
C7_ThrowDoesNotStopDelivery ==
    (lastOp.op = "message" /\ lastOp.threw)
        => Len(lastOp.invoked) = Len(SubscribersOf(lastOp.topic))

\* C8: a callback is invoked for a data frame only while the service holds a
\* non-empty clientId that came from the handshake frame of the connection the
\* data frame arrived on.
C8_DispatchOnlyAfterHandshake ==
    (lastOp.op = "message" /\ Len(lastOp.invoked) > 0)
        => (clientId # NoId /\ clientId = lastOp.hs)

\* C9: unsubscribing a topic/callback pair that is not present changes neither
\* the registry nor the connection nor the clientId, and issues no
\* registration push.
C9_AbsentUnsubscribeIsNoOp ==
    [][(lastOp'.op \in {"unsubscribe", "unsubscribeByTopicAndListener"} /\ lastOp'.absent)
          => UNCHANGED <<subscriptions, eventSource, clientId, inflight>>]_vars

\* C10: an unsubscribe operation that leaves the registry empty tears the
\* connection down: no physical connection stays open, the clientId is
\* cleared, no registration push is issued and onDisconnect is not invoked.
C10_EmptyRegistryTearsDown ==
    (lastOp.op \in UnsubscribeOps /\ Len(subscriptions) = 0)
        => /\ OpenConnections = 0
           /\ eventSource = Null
           /\ clientId = NoId
           /\ lastOp.pushes = 0
           /\ lastOp.notified = <<>>

\* the handlers of the transport: onopen, onerror, the retry timer and the
\* handshake listener
TransportOps == {"open", "error", "timer", "handshake"}

\* C11: no transport event (error, scheduled retry, reconnection, handshake,
\* terminal give-up) changes the registry: topics, callbacks and their order
\* stay as they were; and a data frame arriving on the connection whose
\* handshake gave the current clientId is dispatched to the registered
\* subscribers of its topic (all of them when none throws).
C11_TransportKeepsRegistry ==
    [][ /\ lastOp'.op \in TransportOps => subscriptions' = subscriptions
        /\ (lastOp'.op = "message" /\ ~lastOp'.threw /\ lastOp'.hs = clientId')
              => lastOp'.invoked = (IF MapHas(subscriptions', lastOp'.topic)
                                    THEN MapGet(subscriptions', lastOp'.topic)
                                    ELSE <<>>) ]_vars

\* a handshake completed after transport failures, with the registrations made
\* before them still in the registry
C11_Witness ==
    /\ lastOp.op = "handshake"
    /\ lastOp.after > 0
    /\ Len(subscriptions) > 0
    /\ Range(MapKeys(subscriptions)) = {p[1] : p \in live}

\* C12: whenever the service is Disconnected (no connection, no retry
\* scheduled), no subscribe() call is still suspended waiting for the
\* handshake: the waiters were resolved or rejected together.
C12_NoWaiterWhenDisconnected ==
    (eventSource = Null /\ retryTimers = 0) => pendingConnects = 0

\* C13: when a registration push fails with an error that is not an abort, the
\* error is thrown to the caller awaiting the push, and the failure leaves the
\* connection and the clientId as they were.
C13_PushFailureSurfaced ==
    [][ (lastOp'.op = "rejected" /\ ~(lastOp'.res.cre /\ lastOp'.res.isAbort))
          => (lastOp'.surfaced /\ UNCHANGED <<eventSource, clientId, detached>>) ]_vars

\* a push failed with a server error while the service was connected
C13_Witness ==
    /\ lastOp.op = "rejected"
    /\ lastOp.res.cre
    /\ ~lastOp.res.isAbort
    /\ lastOp.surfaced
    /\ IsConnected(eventSource, clientId)

\* C14: a registration push that ends with a ClientResponseError whose isAbort
\* is set is never thrown to the caller awaiting the push.
C14_AbortNotSurfaced ==
    (lastOp.op = "rejected" /\ lastOp.res.cre /\ lastOp.res.isAbort) => ~lastOp.surfaced

\* a push was aborted
C14_Witness ==
    /\ lastOp.op = "rejected"
    /\ lastOp.res.cre
    /\ lastOp.res.isAbort
    /\ ~lastOp.surfaced

\* the requests whose promise has not settled and whose signal is not aborted
LivePending(k) ==
    {i \in 1..Len(requests) :
        requests[i].state = "pending" /\ ~requests[i].aborted /\ requests[i].key = StringKey(k)}

\* C15: for every request key, at most one request with that key is pending
\* and not aborted, and a request whose controller was aborted ends with a
\* ClientResponseError whose isAbort is set.
C15_OnePendingPerKey ==
    /\ \A k \in CancelKeys : Cardinality(LivePending(k)) <= 1
    /\ \A i \in 1..Len(requests) :
          (requests[i].aborted /\ requests[i].state # "pending") => requests[i].state = "abort"

\* C16: right after cancelAllRequests() every request that is pending with a
\* request key is aborted and no cancel controller is registered.
C16_CancelAllAbortsAll ==
    sendOp.op = "cancelAllRequests"
        => /\ \A k \in CancelKeys : LivePending(k) = {}
           /\ DOMAIN cancelControllers = {}

ChangeOps == {"save", "clear"}

\* C17: a callback registered with subscribe(), or with onChange and
\* fireImmediately, is invoked once at registration, and every save() or
\* clear() invokes each callback registered at that moment exactly once, in
\* registration order.
C17_EveryCallbackNotifiedOnce ==
    /\ authOp.op \in {"subscribe", "userSubscribe", "onChangeImmediately"}
          => authOp.invoked = authOp.before
    /\ authOp.op \in ChangeOps => authOp.invoked = authOp.before

\* C18: a save() or clear() invokes no callback whose removal function was
\* called before it, and invokes every registered callback whose removal
\* function has not been called.
C18_RemovedNeverInvoked ==
    authOp.op \in ChangeOps
        => /\ \A cb \in Range(authOp.invoked) : cb \notin authOp.gone
           /\ \A cb \in Range(authOp.before) : cb \notin removed => cb \in Range(authOp.invoked)

\* C19: once no initialize() call is suspended, a store without subscribers
\* holds no realtime registration.
C19_NoSubscriberNoSubscription ==
    (subscribers = {} /\ initializing = EmptyBag) => registrations = {}

\* C20: the token and record getters of LocalAuthStore return the arguments
\* of the most recent save(), and '' and null after clear() or when nothing
\* was saved.
C20_GettersReturnLastSave ==
    /\ token(localStorage, storageFallback) = saved.token
    /\ record(localStorage, storageFallback) = saved.record

\* C21: in a run without a handshake, the transport failure that follows
\* maxReconnectAttempts retries makes the service give up: it closes the
\* connection instead of scheduling a further retry, whether or not the
\* transport opened in between.
C21_RetriesBounded ==
    (lastOp.op = "error" /\ failures > maxReconnectAttempts) => eventSource = Null

\* C22: from the moment a transport error is handled until the next handshake
\* frame arrives, clientId is empty, and no registration push issued in that
\* interval carries an identity.
C22_IdentityClearedOnDisconnect ==
    /\ (failures > 0) => clientId = NoId
    /\ (failures > 0 /\ lastOp.op \in UnsubscribeOps \cup {"subscribe"}) => lastOp.pushes = 0

\* C23: after an unsubscribe operation emptied the registry and tore the
\* connection down, no retry timer is pending.
C23_TeardownCancelsTimer ==
    (lastOp.op \in UnsubscribeOps /\ Len(subscriptions) = 0) => retryTimers = 0

\* C24: a handshake whose listener completes, received while the registry is
\* non-empty, issues exactly one registration push.
C24_OnePushPerHandshake ==
    (lastOp.op = "handshake" /\ ~lastOp.threw /\ Len(subscriptions) > 0) => lastOp.pushes = 1

\* C25: a subscribe() or unsubscribe handle call that changes the registry but
\* leaves its topic set as it was issues no registration push.
C25_SameTopicsNoPush ==
    [][ ( /\ lastOp'.op \in {"subscribe", "unsubscribeByTopicAndListener"}
          /\ subscriptions' # subscriptions
          /\ Range(MapKeys(subscriptions')) = Range(MapKeys(subscriptions)) )
          => (lastOp'.pushes = 0 /\ inflight' = inflight) ]_vars

\* C26: every registration push that is issued carries the clientId held and
\* the registry's topics (without the control topic) as they are at the moment
\* it is issued, whatever the registry was when the caller issuing it started.
C26_PushIsSnapshot ==
    [][ \A p \in BagToSet(inflight') :
           CopiesIn(p, inflight') > CopiesIn(p, inflight)
              => p = PushBody(clientId', subscriptions') ]_vars

\* a push was issued while an earlier push, taken from another state of the
\* registry, was still in flight
C26_Witness ==
    /\ lastOp.pushes > 0
    /\ PushBody(clientId, subscriptions) \in BagToSet(inflight)
    /\ \E p \in BagToSet(inflight) :
          p.subscriptions # PushBody(clientId, subscriptions).subscriptions

\* C27: PB_CONNECT is in the topic list of no registration push.
C27_ControlTopicNeverPushed ==
    \A p \in BagToSet(inflight) : PB_CONNECT \notin Range(p.subscriptions)

\* a push was issued while a callback was subscribed to PB_CONNECT
C27_Witness ==
    /\ lastOp.pushes > 0
    /\ MapHas(subscriptions, PB_CONNECT)
    /\ inflight # EmptyBag

\* p is the beginning of s
IsPrefixOf(p, s) == Len(p) <= Len(s) /\ \A i \in 1..Len(p) : s[i] = p[i]

\* C28: unsubscribeByPrefix(p) removes every topic that starts with p, keeps
\* every other topic with its subscriber list as it was, in order, and adds
\* nothing; with the prefix RecordService passes, the topics removed are those
\* of the form collection/...
C28_PrefixRemovesOnlyMatching ==
    [][ lastOp'.op = "unsubscribeByPrefix"
          => /\ \A i \in 1..Len(subscriptions) :
                   IF IsPrefixOf(lastOp'.topic, subscriptions[i].topic)
                   THEN ~MapHas(subscriptions', subscriptions[i].topic)
                   ELSE /\ MapHas(subscriptions', subscriptions[i].topic)
                        /\ MapGet(subscriptions', subscriptions[i].topic) = subscriptions[i].subs
             /\ \A j \in 1..Len(subscriptions') :
                   /\ MapHas(subscriptions, subscriptions'[j].topic)
                   /\ \A k \in 1..Len(subscriptions') :
                         subscriptions'[k].topic = subscriptions'[j].topic => k = j
             /\ \E c \in Collections :
                   \A i \in 1..Len(subscriptions) :
                      ~MapHas(subscriptions', subscriptions[i].topic)
                         => IsPrefixOf(c \o <<"/">>, subscriptions[i].topic) ]_vars

\* a prefix removal took the topics of one collection and left another topic
C28_Witness ==
    /\ lastOp.op = "unsubscribeByPrefix"
    /\ ~lastOp.absent
    /\ Len(subscriptions) > 0

\* The connection state the fields amount to: Open is what the isConnected
\* getter reports, Reconnecting is a retry waiting for its timer, Connecting
\* is an EventSource that has not completed its handshake.
ConnectionState ==
    IF IsConnected(eventSource, clientId) THEN "Open"
    ELSE IF retryTimers > 0 THEN "Reconnecting"
    ELSE IF eventSource # Null THEN "Connecting"
    ELSE "Disconnected"

\* the edges of the state machine; a failure while Connecting is allowed the
\* edges of a failure while Open
StateEdges ==
    { <<"Disconnected", "Connecting">>, <<"Connecting", "Open">>,
      <<"Open", "Reconnecting">>, <<"Connecting", "Reconnecting">>,
      <<"Reconnecting", "Connecting">>, <<"Reconnecting", "Disconnected">>,
      <<"Open", "Disconnected">>, <<"Connecting", "Disconnected">> }

\* C29: the connection state changes only along the edges of the state
\* machine or by the teardown of an unsubscribe operation, and Open is entered
\* only by a handshake frame received while Connecting.
C29_StateMachineEdges ==
    [][ ConnectionState' # ConnectionState
          => /\ \/ <<ConnectionState, ConnectionState'>> \in StateEdges
                \/ ConnectionState' = "Disconnected" /\ lastOp'.op \in UnsubscribeOps
             /\ ConnectionState' = "Open"
                   => (lastOp'.op = "handshake" /\ ConnectionState = "Connecting") ]_vars

\* C30: after the handshake frame carrying clientId c is handled, the service
\* holds c, every waiter was resolved (none rejected), no waiter is left and
\* the reconnect attempt counter is zero.
C30_HandshakeCompletes ==
    lastOp.op = "handshake"
        => /\ clientId = lastOp.hs
           /\ lastOp.rejectedWaiters = 0
           /\ pendingConnects = 0
           /\ reconnectAttempts = 0

C32_SingleRetryTimer == retryTimers <= 1

\* C33: a subscribe() call that rejects leaves the registry as it was before
\* the call.
C33_RejectedSubscribeRollsBack ==
    [][ (lastOp'.op = "subscribe" /\ lastOp'.rejectedWaiters > 0)
          => subscriptions' = subscriptions ]_vars

\* C36: the function subscribe(topic, cb) returned leaves no registration of
\* cb on that topic, keeps the registrations of the other callbacks of the
\* topic in their order, and leaves every other topic as it was.
C36_HandleRemovesCallback ==
    [][ lastOp'.op = "unsubscribeByTopicAndListener"
          => \A t \in Topics :
                LET old == IF MapHas(subscriptions, t) THEN MapGet(subscriptions, t) ELSE <<>>
                    new == IF MapHas(subscriptions', t) THEN MapGet(subscriptions', t) ELSE <<>>
                    gone == {cb \in Callbacks : <<t, cb>> \in live \ live'}
                IN  IF t # lastOp'.topic THEN new = old
                    ELSE /\ Range(new) \cap gone = {}
                         /\ \E f \in [1..Len(new) -> 1..Len(old)] :
                               /\ \A i \in 1..Len(new) : new[i] = old[f[i]]
                               /\ \A i, j \in 1..Len(new) : i < j => f[i] < f[j]
                               /\ \A k \in 1..Len(old) :
                                     old[k] \notin gone => \E i \in 1..Len(new) : f[i] = k ]_vars

\* an unsubscribe function removed its callback from a topic on which another
\* registration stays
C36_Witness ==
    /\ lastOp.op = "unsubscribeByTopicAndListener"
    /\ ~lastOp.absent
    /\ MapHas(subscriptions, lastOp.topic)

\* C37: no registration request carries an empty clientId, and a subscribe or
\* unsubscribe operation performed while no clientId is held puts no request
\* in flight.
C37_NoPushWithoutIdentity ==
    [][ /\ \A p \in BagToSet(inflight') : p.clientId # NoId
        /\ (lastOp'.op \in UnsubscribeOps \cup {"subscribe"} /\ clientId' = NoId)
              => inflight' = inflight ]_vars

\* an unsubscribe operation left topics in the registry while no clientId was
\* held
C37_Witness ==
    /\ lastOp.op \in UnsubscribeOps
    /\ ~lastOp.absent
    /\ clientId = NoId
    /\ eventSource # Null
    /\ Len(subscriptions) > 0

\* C38: when a PB_CONNECT subscriber throws while the handshake frame is
\* handled, the clientId of the frame is stored and no waiter is rejected.
C38_ThrowingConnectCallback ==
    (lastOp.op = "handshake" /\ lastOp.threw)
        => (clientId = lastOp.hs /\ lastOp.rejectedWaiters = 0)

\* C35: the realtime service holds at most one registration of the store's
\* event handler at any time.
C35_AtMostOneRegistration == Cardinality(registrations) <= 1

\* C34: every request added to a BatchService is still buffered or was in the
\* body of a send() that succeeded, and a send() on an empty buffer issues no
\* HTTP request and returns [].
C34_NoRequestDropped ==
    /\ \A r \in 1..batchAdded :
          r \in {batchRequests[i] : i \in 1..Len(batchRequests)} \cup batchDelivered
    /\ batchOp.op = "sendEmpty" => (~batchOp.http /\ batchOp.result = <<>>)

====
